---- MODULE Spec2Model ----
(***************************************************************************)
(* A model of the fixer tool of src/cli.js (main.js part): the Edit        *)
(* Applier (applyEdits, applyReplaceRange), the entry-point resolution and *)
(* the Repair Loop (fixAndTestFile, tryq, help).                           *)
(*                                                                         *)
(* A text is a sequence of one-character strings.  A JavaScript value that *)
(* may be missing or ill-typed is a record [t, v]: t is what typeof gives, *)
(* v the value when t is the expected type.                                *)
(***************************************************************************)
EXTENDS Integers, Sequences, FiniteSets, TLC

VARIABLES
    files,          \* the file system: path -> <<>> (absent) or <<text>>
    edits,          \* EditSpec: the edit list handed to applyEdits
    applyOut,       \* EditSpec: what applyEdits did: pending / returned / threw
    mod,            \* the module namespace of the last successful import
    testExportName, \* options.testExportName || "run"
    candidate,      \* the entry point resolved from mod
    pc,             \* position of fixAndTestFile: start / round / returned / raised
    maxRounds,      \* options.maxRounds || MAX_ROUNDS
    round,          \* the loop counter of fixAndTestFile
    lastError,      \* fixAndTestFile's lastError
    history,        \* fixAndTestFile's history
    result,         \* the value fixAndTestFile returned, once pc = "returned"
    indexFile,      \* whether the persisted vector index exists
    obs,            \* observations of the session (not program state): calls
                    \* made, and what happened in the last round
    clock,          \* the system clock in ms: its last reading, and the ms
                    \* that pass between two readings
    backups,        \* the backup directory: the .bak files written so far
    reply,          \* HelpSpec: what the external services do during help
    loader,         \* the module loader: the modules it has loaded, by tag,
                    \* and the loads made so far (an observation)
    chunkLog,       \* ChunkSpec: the calls of extractFunctionChunks so far,
                    \* each with its input and the chunks it returned
    snapshot,       \* the persisted vector index: <<>> (no file) or <<text>>
    buildOut,       \* what the last buildIndex() returned and persisted
    loadOut,        \* what the last loadIndex() read and returned
    faiss,          \* whether faiss-node is installed, and faissIndexCache
    searchOut       \* IndexSpec: what the last vectorSearch did

vars == <<files, edits, applyOut, mod, testExportName, candidate, pc, maxRounds,
          round, lastError, history, result, indexFile, obs, clock, backups, reply,
          loader, chunkLog, snapshot, buildOut, loadOut, faiss, searchOut>>

(***************************************************************************)
(* Bounds of the model.                                                    *)
(***************************************************************************)
MaxLines == 5       \* lines of the files drawn as inputs
MaxEdits == 2       \* length of the edit lists drawn as inputs
MaxRoundsOpt == 3   \* largest options.maxRounds drawn as input
MaxCalls == 3       \* calls of extractFunctionChunks in one behaviour
MaxChunks == 2      \* chunks of the project at the time of a build
MaxK == 2           \* largest k handed to vectorSearch

(***************************************************************************)
(* Program constants.                                                      *)
(***************************************************************************)
MAX_ROUNDS == 5
MAX_CHUNK_LEN == 3000

(***************************************************************************)
(* JavaScript values.                                                      *)
(***************************************************************************)
JsNum(n) == [t |-> "number", v |-> n]
JsNoNum == [t |-> "undefined", v |-> 0]
\* the string of the digits of n, and the boolean true (n = 1): not a
\* number, truthy, and converted to the number n by Math.min and Math.max
JsNumStr(n) == [t |-> "string", v |-> n]
JsTrue == [t |-> "boolean", v |-> 1]
JsStr(s) == [t |-> "string", v |-> s]
JsNoStr == [t |-> "undefined", v |-> <<>>]
JsPath(p) == [t |-> "string", v |-> p]
JsNoPath == [t |-> "undefined", v |-> ""]

\* !x for a number-or-undefined field: undefined and 0 are falsy
Falsy(x) == x.t = "undefined" \/ (x.t = "number" /\ x.v = 0)

Min(a, b) == IF a <= b THEN a ELSE b
Max(a, b) == IF a >= b THEN a ELSE b

(***************************************************************************)
(* Text helpers: String.prototype.split(/\r?\n/), Array.prototype.join,    *)
(* Array.prototype.slice.                                                  *)
(***************************************************************************)
CR == "\r"
LF == "\n"

RECURSIVE SplitFrom(_, _, _)
SplitFrom(raw, i, cur) ==
    IF i > Len(raw) THEN <<cur>>
    ELSE IF raw[i] = LF THEN <<cur>> \o SplitFrom(raw, i + 1, <<>>)
    ELSE IF raw[i] = CR /\ i < Len(raw) /\ raw[i + 1] = LF
         THEN <<cur>> \o SplitFrom(raw, i + 2, <<>>)
    ELSE SplitFrom(raw, i + 1, Append(cur, raw[i]))

\* raw.split(/\r?\n/): always at least one line
SplitLines(raw) == SplitFrom(raw, 1, <<>>)

RECURSIVE JoinLines(_)
\* lines.join("\n")
JoinLines(lines) ==
    IF Len(lines) = 0 THEN <<>>
    ELSE IF Len(lines) = 1 THEN lines[1]
    ELSE lines[1] \o <<LF>> \o JoinLines(Tail(lines))

\* arr.slice(from, to), 0-based, to exclusive, negative indexes from the end
Slice(arr, from, to) ==
    LET n == Len(arr)
        a == IF from < 0 THEN Max(n + from, 0) ELSE Min(from, n)
        b == IF to < 0 THEN Max(n + to, 0) ELSE Min(to, n)
    IN  IF a >= b THEN <<>> ELSE SubSeq(arr, a + 1, b)

(***************************************************************************)
(* The file system.                                                        *)
(***************************************************************************)
Target == "a.js"
Other == "b.js"
Paths == {Target, Other}
NoFile == <<>>

Exists(fs, p) == fs[p] # NoFile
ReadText(fs, p) == fs[p][1]
WriteText(fs, p, content) == [fs EXCEPT ![p] = <<content>>]

(***************************************************************************)
(* The clock and the backup directory.  Two readings of the clock give the *)
(* same millisecond (step 0) or consecutive ones (step 1).  A backup file  *)
(* is named after the base name of the file and the reading of the clock;  *)
(* copyFileSync overwrites a file of the same name.                        *)
(***************************************************************************)
ClockSteps == {0, 1}
Clocks == {[now |-> 0, step |-> d] : d \in ClockSteps}

\* new Date() / Date.now(): the clock after one more reading
Tick(ck) == [ck EXCEPT !.now = @ + ck.step]

\* path.basename(absPath): the files of the model lie in one directory
Basename(abs) == abs

NoBackups == {}
Scratch(ck, dir) == [clock |-> ck, dir |-> dir]

\* backupFile(absPath), the copy succeeding
backupFile(fs, sc, abs) ==
    [clock |-> Tick(sc.clock),
     dir |-> {b \in sc.dir :
                ~(b.base = Basename(abs) /\ b.stamp = Tick(sc.clock).now)}
                \cup {[base |-> Basename(abs), stamp |-> Tick(sc.clock).now,
                        content |-> ReadText(fs, abs)]}]

\* line 428: if (exists) backupFile(abs); else ensureDir(path.dirname(abs))
BackupIfExists(fs, sc, abs) ==
    IF Exists(fs, abs) THEN backupFile(fs, sc, abs) ELSE sc

(***************************************************************************)
(* applyReplaceRange: the clamped range and the rewritten text.            *)
(***************************************************************************)
ClampedStart(lines, startLine) == Max(1, Min(startLine, Len(lines)))
ClampedEnd(lines, startLine, endLine) ==
    Max(ClampedStart(lines, startLine), Min(endLine, Len(lines)))

\* a wrong version: lines.slice(clampedEnd - 1) keeps the last replaced line
ReplaceRangeTextKeepsLast(raw, startLine, endLine, newText) ==
    LET lines == SplitLines(raw)
        clampedStart == ClampedStart(lines, startLine)
        clampedEnd == ClampedEnd(lines, startLine, endLine)
        before == Slice(lines, 0, clampedStart - 1)
        after == Slice(lines, clampedEnd - 1, Len(lines))
    IN  JoinLines(before \o SplitLines(newText) \o after)

ReplaceRangeText(raw, startLine, endLine, newText) ==
    LET lines == SplitLines(raw)
        clampedStart == ClampedStart(lines, startLine)
        clampedEnd == ClampedEnd(lines, startLine, endLine)
        before == Slice(lines, 0, clampedStart - 1)
        after == Slice(lines, clampedEnd, Len(lines))
    IN  JoinLines(before \o SplitLines(newText) \o after)

\* a wrong version: the text is written to a file that was absent before
\* the read of it throws
applyReplaceRangeCreatesFile(fs, abs, startLine, endLine, newText) ==
    IF ~Exists(fs, abs)
    THEN [threw |-> TRUE, fs |-> WriteText(fs, abs, newText)]
    ELSE [threw |-> FALSE,
          fs |-> WriteText(fs, abs,
                    ReplaceRangeText(ReadText(fs, abs), startLine, endLine, newText))]

\* readText throws when the file is absent: the caller's catch records it;
\* fs is the file system as the call leaves it
applyReplaceRange(fs, abs, startLine, endLine, newText) ==
    IF ~Exists(fs, abs)
    THEN [threw |-> TRUE, fs |-> fs]
    ELSE [threw |-> FALSE,
          fs |-> WriteText(fs, abs,
                    ReplaceRangeText(ReadText(fs, abs), startLine, endLine, newText))]

(***************************************************************************)
(* applyEdits: one edit, then the whole list.                              *)
(***************************************************************************)
OkRecord(abs, strategy) ==
    [path |-> abs, ok |-> TRUE, strategy |-> strategy, reason |-> ""]
FailRecord(abs, reason) ==
    [path |-> abs, ok |-> FALSE, strategy |-> "", reason |-> reason]

\* path.isAbsolute(e.path) sits outside the try block: it throws a TypeError
\* when e.path is not a string
PathThrows(e) == e.path.t # "string"

\* lines 430-443: the strategies, for one edit whose path is a string
ApplyOne(fs, e) ==
    LET abs == e.path.v
    IN  IF e.strategy = "replace_range"
        THEN IF e.new_text.t # "string" \/ Falsy(e.startLine) \/ Falsy(e.endLine)
             THEN [fs |-> fs, rec |-> FailRecord(abs, "missing fields for replace_range")]
             ELSE LET r == applyReplaceRange(fs, abs, e.startLine.v, e.endLine.v,
                                             e.new_text.v)
                  IN  IF r.threw
                      THEN [fs |-> r.fs, rec |-> FailRecord(abs, "ENOENT")]
                      ELSE [fs |-> r.fs, rec |-> OkRecord(abs, e.strategy)]
        ELSE IF e.strategy = "replace_file"
        THEN IF e.new_content.t # "string"
             THEN [fs |-> fs, rec |-> FailRecord(abs, "missing new_content")]
             ELSE [fs |-> WriteText(fs, abs, e.new_content.v),
                   rec |-> OkRecord(abs, e.strategy)]
        ELSE [fs |-> fs, rec |-> FailRecord(abs, "unknown strategy")]

RECURSIVE ApplyFrom(_, _, _, _, _)
ApplyFrom(fs, sc, es, i, results) ==
    IF i > Len(es) THEN [threw |-> FALSE, fs |-> fs, sc |-> sc, results |-> results]
    ELSE IF PathThrows(es[i])
         THEN [threw |-> TRUE, fs |-> fs, sc |-> sc, results |-> results]
    ELSE ApplyFrom(ApplyOne(fs, es[i]).fs, BackupIfExists(fs, sc, es[i].path.v),
                   es, i + 1, Append(results, ApplyOne(fs, es[i]).rec))

\* applyEdits(edits): the file system and the backup directory afterwards,
\* the results, or the throw
applyEdits(fs, sc, es) == ApplyFrom(fs, sc, es, 1, <<>>)

(***************************************************************************)
(* Entry-point resolution of fixAndTestFile.  A module namespace maps each *)
(* export name to the kind of value it holds; its keys are in the order    *)
(* Object.keys gives them.                                                 *)
(***************************************************************************)
ExportNames == <<"default", "helper", "run">>
ExportSet == {ExportNames[i] : i \in 1..Len(ExportNames)}
ValueKinds == {"absent", "falsy", "value", "function"}
Modules == [ExportSet -> ValueKinds]

Truthy(kind) == kind \in {"value", "function"}
Export(m, name) == IF name \in ExportSet THEN m[name] ELSE "absent"

NoCandidate == [name |-> "", kind |-> "absent"]
NoModule == [n \in ExportSet |-> "absent"]

\* the arrow function of the third alternative: the first exported function
FirstFunction(m) ==
    LET fns == {i \in 1..Len(ExportNames) : m[ExportNames[i]] = "function"}
    IN  IF fns = {} THEN NoCandidate
        ELSE LET i == CHOOSE j \in fns : \A k \in fns : j <= k
             IN  [name |-> ExportNames[i], kind |-> "function"]

\* mod[testExportName] || mod.default || (first exported function)
resolveCandidate(m, name) ==
    IF Truthy(Export(m, name)) THEN [name |-> name, kind |-> Export(m, name)]
    ELSE IF Truthy(m["default"]) THEN [name |-> "default", kind |-> m["default"]]
    ELSE FirstFunction(m)

\* !candidate || typeof candidate !== "function"
NotRunnable(c) == c.kind # "function"

\* options.testExportName || "run"
TestExportName(opt) == IF opt = "" THEN "run" ELSE opt

(***************************************************************************)
(* importFresh.  The URL of the import ends in "?t=" and a reading of the  *)
(* clock (the tag).  The module loader keeps every module it has loaded    *)
(* under its URL: an import of a URL it holds gives that module again,     *)
(* without reading the file.  A load records the tag, the text the module  *)
(* it gave was made from, and the text the file held at that time.         *)
(***************************************************************************)
NoLoader == [cache |-> {}, loads |-> <<>>]

CacheHit(ld, tag) == \E c \in ld.cache : c.tag = tag
Cached(ld, tag) == CHOOSE c \in ld.cache : c.tag = tag

DiskText(fs, p) == IF Exists(fs, p) THEN ReadText(fs, p) ELSE <<>>

\* the module namespaces an import with this tag can give, fresh being the
\* namespaces a fresh load of the file can give
ImportedModules(ld, tag, fresh) ==
    IF CacheHit(ld, tag) THEN {Cached(ld, tag).mod} ELSE fresh

\* the loader after an import with this tag gave the module namespace m
LoadOk(ld, tag, disk, m) ==
    [cache |-> IF CacheHit(ld, tag) THEN ld.cache
               ELSE ld.cache \cup {[tag |-> tag, text |-> disk, mod |-> m]},
     loads |-> Append(ld.loads,
                      [tag |-> tag, ok |-> TRUE,
                       text |-> IF CacheHit(ld, tag) THEN Cached(ld, tag).text ELSE disk,
                       disk |-> disk])]

\* the loader after an import with this tag failed
LoadFails(ld, tag, disk) ==
    [cache |-> ld.cache,
     loads |-> Append(ld.loads, [tag |-> tag, ok |-> FALSE, text |-> disk, disk |-> disk])]

(***************************************************************************)
(* Thrown values.  message is the value's message property as text pieces  *)
(* (<<>> when it has none or an empty one), str is String(value).          *)
(***************************************************************************)
NewError(msg) == [message |-> msg, str |-> <<"Error: ">> \o msg]
ErrBoom == NewError(<<"boom">>)
ThrownString == [message |-> <<>>, str |-> <<"oops">>]
ErrNotFound == NewError(<<"Cannot find module">>)
Thrown == {ErrBoom, ThrownString}
NullError == [message |-> <<>>, str |-> <<"null">>]
NoEntryMessage == <<"No runnable export found">>

\* err?.message || String(err)
MessageOrString(err) == IF err.message # <<>> THEN err.message ELSE err.str

(***************************************************************************)
(* proposeFixes, help, applyFix, tryq.  svc is what the external services  *)
(* do during the call: the embedding call fails ("embed_error"), the       *)
(* fix-proposal call fails ("chat_error"), or the fix-proposal service     *)
(* answers with a text: one that is not JSON ("not_json"), a JSON value    *)
(* without edits ("no_edits"), a JSON object whose edits is a truthy value *)
(* that cannot be iterated, such as a number or an object ("bad_edits"),   *)
(* or a JSON object whose edits is the array svc.edits ("response").       *)
(***************************************************************************)
ReplyKinds == {"embed_error", "chat_error", "not_json", "no_edits", "bad_edits"}

ServiceFails(svc) == svc.kind \in {"embed_error", "chat_error"}

\* lines 391-397: the edits property of the value proposeFixes returns
ParsedEdits(svc) ==
    IF svc.kind = "response" THEN [t |-> "array", v |-> svc.edits]
    ELSE IF svc.kind = "not_json" THEN [t |-> "array", v |-> <<>>]
    ELSE IF svc.kind = "no_edits" THEN [t |-> "undefined", v |-> <<>>]
    ELSE [t |-> "number", v |-> <<>>]

\* proposal?.edits || []
EditsOrEmpty(pe) == IF pe.t = "undefined" THEN [t |-> "array", v |-> <<>>] ELSE pe

\* for (const e of edits) throws a TypeError when edits is not iterable
NotIterable(pe) == pe.t # "array"

help(fs, sc, svc) ==
    IF ServiceFails(svc) \/ NotIterable(EditsOrEmpty(ParsedEdits(svc)))
    THEN [threw |-> TRUE, fs |-> fs, sc |-> sc, proposal |-> <<>>, results |-> <<>>]
    ELSE LET r == applyEdits(fs, sc, EditsOrEmpty(ParsedEdits(svc)).v)
         IN  [threw |-> r.threw, fs |-> r.fs, sc |-> r.sc,
              proposal |-> EditsOrEmpty(ParsedEdits(svc)).v, results |-> r.results]

applyFix(fs, sc, es) == applyEdits(fs, sc, es)

\* lines 475-480: the proposal's edits are applied a second time when the
\* proposal holds any
ApplyAgain(fix) ==
    IF ~fix.threw /\ Len(fix.proposal) > 0
    THEN applyFix(fix.fs, fix.sc, fix.proposal)
    ELSE [threw |-> FALSE, fs |-> fix.fs, sc |-> fix.sc, results |-> <<>>]

\* the catch block of tryq, given what help and the second application did
TryqCaught(err, fix, again) ==
    [threw |-> fix.threw \/ again.threw, fs |-> again.fs, sc |-> again.sc,
     attempt |-> [ok |-> FALSE, out |-> <<>>,
                  error |-> MessageOrString(err),
                  fix |-> <<[proposal |-> fix.proposal, results |-> fix.results]>>]]

\* run is what fn() did: [ok, out, err]
tryq(fs, sc, run, svc) ==
    IF run.ok
    THEN [threw |-> FALSE, fs |-> fs, sc |-> sc,
          attempt |-> [ok |-> TRUE, out |-> <<run.out>>, error |-> <<>>, fix |-> <<>>]]
    ELSE TryqCaught(run.err, help(fs, sc, svc), ApplyAgain(help(fs, sc, svc)))

(***************************************************************************)
(* fixAndTestFile: records and results.  A field that may be missing is    *)
(* <<>> or <<value>>.                                                      *)
(***************************************************************************)
\* a wrong version: the attempt of a round that ran the entry point is
\* left out of its record
RoundRecordWithoutAttempt(r, error, fixRes, attempt) ==
    [round |-> r, error |-> error, fixRes |-> fixRes, attempt |-> <<>>]

RoundRecord(r, error, fixRes, attempt) ==
    [round |-> r, error |-> error, fixRes |-> fixRes, attempt |-> attempt]

\* a wrong version: rounds is maxRounds, as in the failure result
SuccessResultMaxRounds(r, out, h) ==
    [ok |-> TRUE, rounds |-> maxRounds, out |-> out, error |-> <<>>, history |-> h]

SuccessResult(r, out, h) ==
    [ok |-> TRUE, rounds |-> r, out |-> out, error |-> <<>>, history |-> h]

\* lastError?.message || "unknown"
FailureResult(mr, err, h) ==
    [ok |-> FALSE, rounds |-> mr, out |-> <<>>,
     error |-> <<IF err.message # <<>> THEN err.message ELSE <<"unknown">> >>,
     history |-> h]

NoResult == [ok |-> FALSE, rounds |-> 0, out |-> <<>>, error |-> <<>>, history |-> <<>>]

\* options.maxRounds || MAX_ROUNDS
EffectiveMaxRounds(opt) == IF Falsy(opt) THEN MAX_ROUNDS ELSE opt.v

(***************************************************************************)
(* extractFunctionChunks.  The parser is external: a source is a text with *)
(* what parsing it gives: no tree (ok = FALSE), or the function nodes of   *)
(* the tree in the order the visitor reaches them, each with its name and  *)
(* its location (<<>> when the node has none); throwsAt is the position of *)
(* the node at which the visit throws (0: it does not throw).              *)
(***************************************************************************)
\* sha1(`${filePath}:${start}-${end}`): the hashed text itself
ChunkId(filePath, start, end) == <<filePath, start, end>>

\* text.slice(0, MAX_CHUNK_LEN)
Truncate(text) == Slice(text, 0, Min(Len(text), MAX_CHUNK_LEN))

FunctionChunk(code, filePath, node) ==
    [id |-> ChunkId(filePath, node.loc[1].start, node.loc[1].end),
     filePath |-> filePath, kind |-> "function", name |-> node.name,
     startLine |-> node.loc[1].start, endLine |-> node.loc[1].end,
     text |-> Truncate(JoinLines(Slice(SplitLines(code), node.loc[1].start - 1,
                                       node.loc[1].end)))]

\* lines 182-209: the chunks pushed by the visit, up to the node at which
\* it throws
RECURSIVE VisitFrom(_, _, _, _, _)
VisitFrom(code, filePath, parse, i, chunks) ==
    IF i > Len(parse.nodes) \/ i = parse.throwsAt THEN chunks
    ELSE VisitFrom(code, filePath, parse, i + 1,
                   IF parse.nodes[i].loc = <<>> THEN chunks
                   ELSE Append(chunks, FunctionChunk(code, filePath, parse.nodes[i])))

\* a wrong version: the whole-file chunk ends at the last line terminator
FileChunkToLastTerminator(code, filePath) ==
    [id |-> ChunkId(filePath, 1, Len(SplitLines(code)) - 1),
     filePath |-> filePath, kind |-> "file", name |-> Basename(filePath),
     startLine |-> 1, endLine |-> Len(SplitLines(code)) - 1,
     text |-> Truncate(code)]

\* lines 216-226: the whole-file chunk
FileChunk(code, filePath) ==
    [id |-> ChunkId(filePath, 1, Len(SplitLines(code))),
     filePath |-> filePath, kind |-> "file", name |-> Basename(filePath),
     startLine |-> 1, endLine |-> Len(SplitLines(code)),
     text |-> Truncate(code)]

ChunksOrFile(code, filePath, chunks) ==
    IF Len(chunks) = 0 THEN <<FileChunk(code, filePath)>> ELSE chunks

extractFunctionChunks(src, filePath) ==
    ChunksOrFile(src.code, filePath,
                 IF src.parse.ok THEN VisitFrom(src.code, filePath, src.parse, 1, <<>>)
                 ELSE <<>>)

(***************************************************************************)
(* Vectors and similarity.  A similarity is kept as a fraction num / den   *)
(* (den > 0).  For the cosine the fraction is the square of the cosine     *)
(* with the cosine's sign, which orders any two vectors as the cosine      *)
(* itself does; for the inner product it is the product over 1.            *)
(***************************************************************************)
Vecs == {<<1, 0>>, <<0, 1>>, <<1, 1>>}

RECURSIVE DotFrom(_, _, _, _)
DotFrom(a, b, i, n) == IF i > n THEN 0 ELSE a[i] * b[i] + DotFrom(a, b, i + 1, n)

ZeroScore == [num |-> 0, den |-> 1]
ScoreLess(x, y) == x.num * y.den < y.num * x.den

cosineSim(a, b) ==
    IF Len(a) # Len(b) THEN ZeroScore
    ELSE IF DotFrom(a, a, 1, Len(a)) = 0 \/ DotFrom(b, b, 1, Len(b)) = 0 THEN ZeroScore
    ELSE [num |-> (IF DotFrom(a, b, 1, Len(a)) < 0 THEN 0 - 1 ELSE 1)
                    * DotFrom(a, b, 1, Len(a)) * DotFrom(a, b, 1, Len(a)),
          den |-> DotFrom(a, a, 1, Len(a)) * DotFrom(b, b, 1, Len(b))]

\* Array.prototype.sort with (a, b) => b.score - a.score: by descending
\* score, entries of equal score in their order of before (a stable sort)
RECURSIVE InsertDesc(_, _)
InsertDesc(sorted, x) ==
    IF Len(sorted) = 0 THEN <<x>>
    ELSE IF ScoreLess(Head(sorted).score, x.score) THEN <<x>> \o sorted
    ELSE <<Head(sorted)>> \o InsertDesc(Tail(sorted), x)

RECURSIVE SortDescFrom(_, _, _)
SortDescFrom(xs, i, sorted) ==
    IF i > Len(xs) THEN sorted ELSE SortDescFrom(xs, i + 1, InsertDesc(sorted, xs[i]))

SortDesc(xs) == SortDescFrom(xs, 1, <<>>)

Items(xs) == [i \in 1..Len(xs) |-> xs[i].item]

(***************************************************************************)
(* buildIndex and loadIndex.  all is the list of the chunks of the project *)
(* files; emb is what the embedding service does: it fails, or it returns  *)
(* a list of vectors.  The text of the snapshot file is kept as what       *)
(* JSON.parse makes of it: whether it parses, and the index member of the  *)
(* document (<<>> when it has none); no code reads the other members       *)
(* (createdAt, root, model).                                               *)
(***************************************************************************)
NoSnapshot == <<>>

JsArray(xs) == [t |-> "array", v |-> xs]
JsEmptyObject == [t |-> "object", v |-> <<>>]

\* the elements of a value read as a list: those of an array; a value
\* without a length (an object) has none
Elements(x) == IF x.t = "array" THEN x.v ELSE <<>>

\* the text of a JSON document with this index member
JsonText(index) == [json |-> TRUE, index |-> index]

\* a text that is no JSON document (for instance a write cut short)
NotJson == [json |-> FALSE, index |-> <<>>]

\* JSON.stringify({ createdAt, root, model, index }, null, 2)
StringifyPayload(index) == JsonText(<<JsArray(index)>>)

\* { ...c, embedding }
WithEmbedding(c, e) ==
    [id |-> c.id, filePath |-> c.filePath, kind |-> c.kind, name |-> c.name,
     startLine |-> c.startLine, endLine |-> c.endLine, text |-> c.text,
     embedding |-> e]

\* embs[i] || []
EmbeddingAt(embs, i) == IF i <= Len(embs) THEN embs[i] ELSE <<>>

\* the index built, and the snapshot file afterwards; embed is not called
\* when there is no chunk
buildIndex(snap, all, emb) ==
    IF Len(all) = 0
    THEN [threw |-> FALSE, index |-> <<>>, snapshot |-> <<StringifyPayload(<<>>)>>]
    ELSE IF ~emb.ok THEN [threw |-> TRUE, index |-> <<>>, snapshot |-> snap]
    ELSE [threw |-> FALSE,
          index |-> [i \in 1..Len(all) |-> WithEmbedding(all[i], EmbeddingAt(emb.vectors, i))],
          snapshot |-> << StringifyPayload(
                            [i \in 1..Len(all) |->
                                WithEmbedding(all[i], EmbeddingAt(emb.vectors, i))]) >>]

\* loadIndex(): null (<<>>) when there is no file, when its text does not
\* parse, and when parsed.index is missing or falsy; else <<parsed.index>>
loadIndex(snap) ==
    IF snap = NoSnapshot THEN <<>>
    ELSE IF ~snap[1].json THEN <<>>
    ELSE IF snap[1].index = <<>> THEN <<>>
    ELSE IF Falsy(snap[1].index[1]) THEN <<>>
    ELSE snap[1].index

(***************************************************************************)
(* The accelerated index.  faiss.present tells whether faiss-node was      *)
(* imported; faiss.cache is faissIndexCache: <<>> (null) or the flat       *)
(* inner-product index, its dimension and its rows, row i holding the      *)
(* vector added under id i - 1.                                            *)
(***************************************************************************)
\* data.set(Float32Array.from(item.embedding), i * dim): the row of dim
\* numbers, zero where the embedding is shorter
Row(e, dim) == [j \in 1..dim |-> IF j <= Len(e) THEN e[j] ELSE 0]

buildFaissIndex(fa, index) ==
    IF ~fa.present \/ Len(index) = 0 THEN <<>>
    ELSE << [dim |-> Len(index[1].embedding),
             rows |-> [i \in 1..Len(index) |->
                          Row(index[i].embedding, Len(index[1].embedding))]] >>

\* the value of faissIndexCache after ensureFaiss(index), which is also
\* what ensureFaiss returns
ensureFaiss(fa, index) ==
    IF ~fa.present THEN <<>>
    ELSE IF fa.cache # <<>> THEN fa.cache
    ELSE buildFaissIndex(fa, index)

\* cpuIndex.search(qArr, k, D, I): the ids of the k rows of greatest inner
\* product with the query, greatest first (rows of equal product by id),
\* and -1 where the index has fewer than k rows
FaissLabels(ctx, q, k) ==
    LET sorted == SortDesc([i \in 1..Len(ctx.rows) |->
                              [item |-> i - 1,
                               score |-> [num |-> DotFrom(ctx.rows[i], q, 1, ctx.dim),
                                          den |-> 1]]])
    IN  [r \in 1..k |-> IF r <= Len(sorted) THEN sorted[r].item ELSE 0 - 1]

\* lines 313-320: the chunks of the loaded index at the ids in range
RECURSIVE PickFrom(_, _, _, _)
PickFrom(index, labels, r, results) ==
    IF r > Len(labels) THEN results
    ELSE PickFrom(index, labels, r + 1,
                  IF labels[r] >= 0 /\ labels[r] < Len(index)
                  THEN Append(results, index[labels[r] + 1])
                  ELSE results)

\* lines 324-326: the exact scan
ExactScan(index, q, k) ==
    Items(Slice(SortDesc([i \in 1..Len(index) |->
                            [item |-> index[i],
                             score |-> cosineSim(index[i].embedding, q)]]), 0, k))

(***************************************************************************)
(* vectorSearch(query, k).  query is what the embedding of the query text  *)
(* gives: a failure or a vector; built is what buildIndex did when there   *)
(* was no snapshot to load.                                                *)
(***************************************************************************)
SearchThrew(snap, fa) ==
    [status |-> "threw", items |-> <<>>, backend |-> "none", loaded |-> <<>>,
     snapshot |-> snap, faiss |-> fa]

\* lines 304-326: the search over the loaded index
SearchLoaded(snap, fa, index, query, k) ==
    IF Len(index) = 0
    THEN [status |-> "returned", items |-> <<>>, backend |-> "none", loaded |-> index,
          snapshot |-> snap, faiss |-> fa]
    ELSE IF ~query.ok THEN SearchThrew(snap, fa)
    ELSE IF ensureFaiss(fa, index) # <<>>
    THEN [status |-> "returned",
          items |-> PickFrom(index, FaissLabels(ensureFaiss(fa, index)[1], query.vector, k),
                             1, <<>>),
          backend |-> "faiss", loaded |-> index,
          snapshot |-> snap, faiss |-> [fa EXCEPT !.cache = ensureFaiss(fa, index)]]
    ELSE [status |-> "returned", items |-> ExactScan(index, query.vector, k),
          backend |-> "exact", loaded |-> index, snapshot |-> snap, faiss |-> fa]

\* lines 300-302: load the snapshot, or build it
SearchBuilt(fa, built, query, k) ==
    IF built.threw THEN SearchThrew(built.snapshot, fa)
    ELSE SearchLoaded(built.snapshot, fa, built.index, query, k)

vectorSearch(snap, fa, all, emb, query, k) ==
    IF loadIndex(snap) = <<>>
    THEN SearchBuilt(fa, buildIndex(snap, all, emb), query, k)
    ELSE SearchLoaded(snap, fa, Elements(loadIndex(snap)[1]), query, k)

(***************************************************************************)
(* EditSpec: applyEdits applied once to a drawn file system and edit list. *)
(***************************************************************************)
Digits == <<"1", "2", "3", "4", "5", "6", "7", "8", "9">>
EolStyles == {<<LF>>, <<CR, LF>>}

RECURSIVE JoinWith(_, _)
JoinWith(lines, eol) ==
    IF Len(lines) = 0 THEN <<>>
    ELSE IF Len(lines) = 1 THEN lines[1]
    ELSE lines[1] \o eol \o JoinWith(Tail(lines), eol)

\* the texts of 1..MaxLines lines; line i is empty or the digit i; one line
\* terminator style per file
FileTexts ==
    UNION {{JoinWith([i \in 1..n |-> IF ls[i] = <<>> THEN <<>> ELSE <<Digits[i]>>], eol) :
                ls \in [1..n -> {<<>>, <<"x">>}], eol \in EolStyles} : n \in 1..MaxLines}

FileSystems ==
    {[p \in Paths |-> IF p = Target THEN f ELSE NoFile] :
        f \in {NoFile} \cup {<<t>> : t \in FileTexts}}

NewTexts == {<<"X">>, <<"X", LF, "Y">>, <<"X", CR, LF, "Y">>}
LineNumbers == {JsNoNum} \cup {JsNum(n) : n \in (0 - 1)..(MaxLines + 1)}

Edit(path, strategy, content, startLine, endLine, text) ==
    [path |-> path, strategy |-> strategy, new_content |-> content,
     startLine |-> startLine, endLine |-> endLine, new_text |-> text]

RangeEdit(p, s, e, t) == Edit(JsPath(p), "replace_range", JsNoStr, s, e, t)
FileEdit(p, c) == Edit(JsPath(p), "replace_file", c, JsNoNum, JsNoNum, JsNoStr)

\* every replace_range edit of the target
RangeEdits ==
    {RangeEdit(Target, s, e, t) :
        s \in LineNumbers, e \in LineNumbers, t \in {JsNoStr} \cup {JsStr(x) : x \in NewTexts}}

\* an entry of the edits array that is no edit object: a number, a string,
\* {}: it has none of the properties of an edit
NonEdit == Edit(JsNoPath, "", JsNoStr, JsNoNum, JsNoNum, JsNoStr)

\* edits of every shape applyEdits tells apart
SampleEdits ==
    { FileEdit(Target, JsStr(<<"X">>)),
      FileEdit(Target, JsNoStr),
      FileEdit(Other, JsStr(<<"X", LF, "Y">>)),
      RangeEdit(Target, JsNum(2), JsNum(3), JsStr(<<"X", LF, "Y">>)),
      RangeEdit(Target, JsNum(0), JsNum(1), JsStr(<<"X">>)),
      RangeEdit(Other, JsNum(1), JsNum(1), JsStr(<<"X">>)),
      Edit(JsPath(Target), "patch", JsNoStr, JsNoNum, JsNoNum, JsNoStr),
      Edit(JsNoPath, "replace_file", JsStr(<<"X">>), JsNoNum, JsNoNum, JsNoStr),
      NonEdit,
      RangeEdit(Target, JsNumStr(2), JsTrue, JsStr(<<"X">>)) }

EditLists(n) == UNION {[1..k -> SampleEdits] : k \in 0..n}

NoObs == [reloads |-> 0, helps |-> 0, svcThrew |-> FALSE,
          reload |-> "none", run |-> "none", thrown |-> NullError, out |-> ""]

\* the variable of HelpSpec, when help is not run on its own
NoReply == [kind |-> "none", edits |-> <<>>]
HelpIdle == reply = NoReply
helpVars == <<reply>>

\* the variable of ChunkSpec, when the extractor is not run on its own
ChunkIdle == chunkLog = <<>>
chunkVars == <<chunkLog>>

\* the variables of IndexSpec, when no index is built or searched
NoFaiss == [present |-> FALSE, cache |-> <<>>]
NoSearch == [status |-> "none", items |-> <<>>, backend |-> "none", loaded |-> <<>>,
             query |-> <<>>, k |-> 0]
NoBuild == [status |-> "none", index |-> <<>>, file |-> NoSnapshot]
NoLoad == [status |-> "none", file |-> NoSnapshot, value |-> <<>>]
IndexIdle ==
    /\ snapshot = NoSnapshot /\ faiss = NoFaiss /\ searchOut = NoSearch
    /\ buildOut = NoBuild /\ loadOut = NoLoad
indexVars == <<snapshot, buildOut, loadOut, faiss, searchOut>>

\* the variables of the repair session, when no session runs
SessionIdle ==
    /\ mod = NoModule /\ testExportName = "run" /\ candidate = NoCandidate
    /\ pc = "idle" /\ maxRounds = 0 /\ round = 0 /\ lastError = NullError
    /\ history = <<>> /\ result = NoResult /\ indexFile = "present" /\ obs = NoObs
    /\ loader = NoLoader

sessionVars == <<mod, testExportName, candidate, pc, maxRounds, round, lastError,
                 history, result, indexFile, obs, loader>>

\* the clock and the backup directory, when nothing reads or writes them
ScratchIdle == clock = [now |-> 0, step |-> 0] /\ backups = NoBackups

\* the variables of EditSpec, when applyEdits is not run on its own
ApplierIdle ==
    /\ edits = <<>>
    /\ applyOut = [status |-> "idle", results |-> <<>>, before |-> files]

EditInit ==
    /\ files \in FileSystems
    /\ edits \in {<<e>> : e \in RangeEdits} \cup EditLists(MaxEdits)
    /\ applyOut = [status |-> "pending", results |-> <<>>, before |-> files]
    /\ SessionIdle
    /\ clock \in Clocks
    /\ backups = NoBackups
    /\ HelpIdle
    /\ ChunkIdle
    /\ IndexIdle

\* applyEdits(edits) runs on the file system
ApplyEdits ==
    /\ applyOut.status = "pending"
    /\ LET r == applyEdits(files, Scratch(clock, backups), edits)
       IN  /\ files' = r.fs
           /\ clock' = r.sc.clock
           /\ backups' = r.sc.dir
           /\ applyOut' = [status |-> IF r.threw THEN "threw" ELSE "returned",
                           results |-> r.results, before |-> files]
    /\ UNCHANGED <<edits, sessionVars, helpVars, chunkVars, indexVars>>

EditNext == ApplyEdits

EditSpec == EditInit /\ [][EditNext]_vars

(***************************************************************************)
(* HelpSpec: help applied once to a drawn file system and a drawn reply of *)
(* the external services.                                                  *)
(***************************************************************************)
Replies ==
    {[kind |-> k, edits |-> <<>>] : k \in ReplyKinds}
        \cup {[kind |-> "response", edits |-> es] : es \in EditLists(MaxEdits)}

HelpInit ==
    /\ files \in FileSystems
    /\ edits = <<>>
    /\ applyOut = [status |-> "pending", results |-> <<>>, before |-> files]
    /\ SessionIdle
    /\ clock \in Clocks
    /\ backups = NoBackups
    /\ reply \in Replies
    /\ ChunkIdle
    /\ IndexIdle

\* help(errMessage, extraContext, preferredPaths) runs on the file system
Help ==
    /\ applyOut.status = "pending"
    /\ LET r == help(files, Scratch(clock, backups), reply)
       IN  /\ files' = r.fs
           /\ clock' = r.sc.clock
           /\ backups' = r.sc.dir
           /\ applyOut' = [status |-> IF r.threw THEN "threw" ELSE "returned",
                           results |-> r.results, before |-> files]
    /\ UNCHANGED <<edits, sessionVars, helpVars, chunkVars, indexVars>>

HelpNext == Help

HelpSpec == HelpInit /\ [][HelpNext]_vars

(***************************************************************************)
(* ChunkSpec: extractFunctionChunks called on drawn sources, one call      *)
(* after another.                                                          *)
(***************************************************************************)
CodeSamples == { <<>>, <<"1", LF>>, <<"1", CR, LF, "2", CR, LF, "3">> }

Node(name, loc) == [name |-> name, loc |-> loc]
Loc(start, end) == <<[start |-> start, end |-> end]>>

\* the function nodes of a text of n lines: none, one without location,
\* one over the whole text, one over the whole text with one inside it
NodeLists(n) ==
    { <<>>,
      <<Node("f", <<>>)>>,
      <<Node("f", Loc(1, n))>>,
      <<Node("f", Loc(1, n)), Node("ArrowFunctionExpression", Loc(n, n))>> }

Parses(code) ==
    {[ok |-> FALSE, nodes |-> <<>>, throwsAt |-> 0]}
        \cup UNION {{[ok |-> TRUE, nodes |-> ns, throwsAt |-> t] : t \in 0..Len(ns)} :
                        ns \in NodeLists(Len(SplitLines(code)))}

Sources == UNION {{[code |-> c, parse |-> ps] : ps \in Parses(c)} : c \in CodeSamples}

ChunkInit ==
    /\ files = [p \in Paths |-> NoFile]
    /\ ApplierIdle
    /\ SessionIdle
    /\ ScratchIdle
    /\ HelpIdle
    /\ IndexIdle
    /\ chunkLog = <<>>

\* extractFunctionChunks(code, filePath) is called once more
Extract ==
    /\ Len(chunkLog) < MaxCalls
    /\ \E src \in Sources :
        chunkLog' = Append(chunkLog,
                           [src |-> src, chunks |-> extractFunctionChunks(src, Target)])
    /\ UNCHANGED <<files, edits, applyOut, sessionVars, clock, backups, helpVars, indexVars>>

ChunkNext == Extract

ChunkSpec == ChunkInit /\ [][ChunkNext]_vars

(***************************************************************************)
(* IndexSpec: the persisted index of one process: it is built when it is   *)
(* missing, searched, and its file may be removed (by hand or by another   *)
(* process) so that the next load rebuilds it.                             *)
(***************************************************************************)
ProjectFile(i) == <<"src", i>>
ProjectSource(i) ==
    [code |-> <<Digits[i]>>,
     parse |-> [ok |-> TRUE, nodes |-> <<Node("f", Loc(1, 1))>>, throwsAt |-> 0]]

\* lines 243-253: the chunks of a project of n files, one chunk per file
AllChunks(n) ==
    [i \in 1..n |-> extractFunctionChunks(ProjectSource(i), ProjectFile(i))[1]]

\* what the embedding service does for n texts: it fails, or it returns n
\* vectors, or one vector less (and at least one)
EmbedReplies(n) ==
    {[ok |-> FALSE, vectors |-> <<>>]}
        \cup UNION {{[ok |-> TRUE, vectors |-> v] : v \in [1..m -> Vecs]} :
                        m \in {n, Max(n - 1, 1)}}

\* what a build meets: the number of chunks of the project and the reply of
\* the embedding service
Builds == UNION {{[n |-> n, emb |-> emb] : emb \in EmbedReplies(n)} : n \in 0..MaxChunks}

\* lines 300-301: buildIndex runs only when there is no snapshot to load
BuildsIfMissing(snap) ==
    IF loadIndex(snap) = <<>> THEN Builds
    ELSE {[n |-> 0, emb |-> [ok |-> FALSE, vectors |-> <<>>]]}

\* what embedding the query text gives: a failure or a vector
QueryReplies ==
    {[ok |-> FALSE, vector |-> <<>>]} \cup {[ok |-> TRUE, vector |-> v] : v \in Vecs}

IndexInit ==
    /\ files = [p \in Paths |-> NoFile]
    /\ ApplierIdle
    /\ SessionIdle
    /\ ScratchIdle
    /\ HelpIdle
    /\ ChunkIdle
    /\ snapshot = NoSnapshot
    /\ faiss \in {[present |-> b, cache |-> <<>>] : b \in BOOLEAN}
    /\ searchOut = NoSearch
    /\ buildOut = NoBuild
    /\ loadOut = NoLoad

\* lines 548-553: the caller finds no index and builds it
Build ==
    /\ loadIndex(snapshot) = <<>>
    /\ \E b \in Builds :
        snapshot' = buildIndex(snapshot, AllChunks(b.n), b.emb).snapshot
    /\ UNCHANGED <<files, edits, applyOut, sessionVars, clock, backups, helpVars,
                   chunkVars, faiss, searchOut, buildOut, loadOut>>

\* vectorSearch(query, k)
Search ==
    /\ \E b \in BuildsIfMissing(snapshot), query \in QueryReplies, k \in 0..MaxK :
        LET r == vectorSearch(snapshot, faiss, AllChunks(b.n), b.emb, query, k)
        IN  /\ snapshot' = r.snapshot
            /\ faiss' = r.faiss
            /\ searchOut' = [status |-> r.status, items |-> r.items,
                             backend |-> r.backend, loaded |-> r.loaded,
                             query |-> query.vector, k |-> k]
    /\ UNCHANGED <<files, edits, applyOut, sessionVars, clock, backups, helpVars,
                   chunkVars, buildOut, loadOut>>

\* the snapshot file is removed
RemoveSnapshot ==
    /\ snapshot # NoSnapshot
    /\ snapshot' = NoSnapshot
    /\ UNCHANGED <<files, edits, applyOut, sessionVars, clock, backups, helpVars,
                   chunkVars, faiss, searchOut, buildOut, loadOut>>

IndexNext == Build \/ Search \/ RemoveSnapshot

IndexSpec == IndexInit /\ [][IndexNext]_vars

(***************************************************************************)
(* SnapshotSpec: the snapshot file over its life: buildIndex persists it   *)
(* when a load gave null, loadIndex reads it, and between the two the file *)
(* may be removed or left with a text that is not a snapshot (a write cut  *)
(* short, another tool, an edit by hand).                                  *)
(***************************************************************************)
\* texts that are not the text of a snapshot: no JSON, a document without
\* index ({}), with index 0, with an index that is an object and no list
MalformedTexts ==
    { NotJson, JsonText(<<>>), JsonText(<<JsNum(0)>>), JsonText(<<JsEmptyObject>>) }

SnapshotInit ==
    /\ files = [p \in Paths |-> NoFile]
    /\ ApplierIdle
    /\ SessionIdle
    /\ ScratchIdle
    /\ HelpIdle
    /\ ChunkIdle
    /\ IndexIdle

\* lines 548-553 and 300-301: a caller got null from loadIndex and calls
\* buildIndex()
Rebuild ==
    /\ loadIndex(snapshot) = <<>>
    /\ \E b \in Builds :
        /\ snapshot' = buildIndex(snapshot, AllChunks(b.n), b.emb).snapshot
        /\ buildOut' = [status |-> IF buildIndex(snapshot, AllChunks(b.n), b.emb).threw
                                   THEN "threw" ELSE "returned",
                        index |-> buildIndex(snapshot, AllChunks(b.n), b.emb).index,
                        file |-> buildIndex(snapshot, AllChunks(b.n), b.emb).snapshot]
    /\ UNCHANGED <<files, edits, applyOut, sessionVars, clock, backups, helpVars,
                   chunkVars, faiss, searchOut, loadOut>>

\* loadIndex()
Load ==
    /\ loadOut' = [status |-> "loaded", file |-> snapshot, value |-> loadIndex(snapshot)]
    /\ UNCHANGED <<files, edits, applyOut, sessionVars, clock, backups, helpVars,
                   chunkVars, faiss, searchOut, snapshot, buildOut>>

\* the snapshot file is left with a text that is not a snapshot
Damage ==
    /\ \E text \in MalformedTexts : snapshot' = <<text>>
    /\ UNCHANGED <<files, edits, applyOut, sessionVars, clock, backups, helpVars,
                   chunkVars, faiss, searchOut, buildOut, loadOut>>

SnapshotNext == Rebuild \/ Load \/ Damage \/ RemoveSnapshot

SnapshotSpec == SnapshotInit /\ [][SnapshotNext]_vars

(***************************************************************************)
(* ResolveSpec: the entry-point resolution applied once to a drawn module  *)
(* namespace and configured name.                                          *)
(***************************************************************************)
NameOptions == {"", "helper", "main"}

ResolveInit ==
    /\ files = [p \in Paths |-> NoFile]
    /\ ApplierIdle
    /\ mod \in Modules
    /\ testExportName \in {TestExportName(o) : o \in NameOptions}
    /\ candidate = NoCandidate
    /\ pc = "resolve" /\ maxRounds = 0 /\ round = 0 /\ lastError = NullError
    /\ history = <<>> /\ result = NoResult /\ indexFile = "present" /\ obs = NoObs
    /\ ScratchIdle
    /\ HelpIdle
    /\ ChunkIdle
    /\ IndexIdle
    /\ loader = NoLoader

\* lines 577-593: the candidate, and the missing-entry-point error when it
\* is not a function
ResolveEntry ==
    /\ pc = "resolve"
    /\ candidate' = resolveCandidate(mod, testExportName)
    /\ lastError' = IF NotRunnable(candidate') THEN NewError(NoEntryMessage) ELSE lastError
    /\ pc' = "resolved"
    /\ UNCHANGED <<files, edits, applyOut, mod, testExportName, maxRounds, round,
                   history, result, indexFile, obs, clock, backups, helpVars, chunkVars,
                   indexVars, loader>>

ResolveNext == ResolveEntry

ResolveSpec == ResolveInit /\ [][ResolveNext]_vars

(***************************************************************************)
(* Spec: one repair session, fixAndTestFile(Target, options).  Each round  *)
(* is one step; what the import, the entry point and the external services *)
(* do in the round is drawn by \E.                                         *)
(***************************************************************************)
OriginalText == <<"1", LF, "2">>

SessionFiles ==
    {[p \in Paths |-> IF p = Target THEN f ELSE NoFile] :
        f \in {NoFile, <<OriginalText>>}}

\* the proposals the fix-proposal service answers with
ProposalSamples ==
    { <<>>,
      <<FileEdit(Target, JsStr(<<"X">>))>>,
      <<RangeEdit(Target, JsNum(1), JsNum(1), JsStr(<<"X", LF, "Y">>))>>,
      <<Edit(JsPath(Target), "patch", JsNoStr, JsNoNum, JsNoNum, JsNoStr)>>,
      <<Edit(JsNoPath, "replace_file", JsStr(<<"X">>), JsNoNum, JsNoNum, JsNoStr)>> }

ServiceOutcomes ==
    {[kind |-> k, edits |-> <<>>] : k \in ReplyKinds}
        \cup {[kind |-> "response", edits |-> es] : es \in ProposalSamples}

\* the module namespaces a successful import gives
ModuleSamples ==
    { [NoModule EXCEPT !["run"] = "function"],
      [NoModule EXCEPT !["default"] = "function"],
      [NoModule EXCEPT !["run"] = "value", !["helper"] = "function"],
      [NoModule EXCEPT !["helper"] = "value"] }

RunOutcomes ==
    {[ok |-> TRUE, out |-> v, err |-> NullError] : v \in {"three", "seven"}}
        \cup {[ok |-> FALSE, out |-> "", err |-> e] : e \in Thrown}

Init ==
    /\ files \in SessionFiles
    /\ ApplierIdle
    /\ mod = NoModule
    /\ testExportName = TestExportName("")
    /\ candidate = NoCandidate
    /\ pc = "start"
    /\ maxRounds \in {EffectiveMaxRounds(JsNum(n)) : n \in 1..MaxRoundsOpt}
    /\ round = 0
    /\ lastError = NullError
    /\ history = <<>>
    /\ result = NoResult
    /\ indexFile \in {"absent", "present"}
    /\ obs = NoObs
    /\ clock \in Clocks
    /\ backups = NoBackups
    /\ HelpIdle
    /\ ChunkIdle
    /\ IndexIdle
    /\ loader = NoLoader

\* lines 548-556: load the index, or build it (one embedding call)
Start ==
    /\ pc = "start"
    /\ \E embedOk \in BOOLEAN :
        IF indexFile = "present" \/ embedOk
        THEN /\ pc' = "round" /\ round' = 1 /\ indexFile' = "present"
             /\ obs' = obs
        ELSE /\ pc' = "raised" /\ round' = round /\ indexFile' = indexFile
             /\ obs' = [obs EXCEPT !.svcThrew = TRUE]
    /\ UNCHANGED <<files, edits, applyOut, mod, testExportName, candidate, maxRounds,
                   lastError, history, result, clock, backups, helpVars, chunkVars,
                   indexVars, loader>>

\* an exception escapes fixAndTestFile
Raise(fs, sc, err, o) ==
    /\ pc' = "raised"
    /\ files' = fs
    /\ clock' = sc.clock
    /\ backups' = sc.dir
    /\ lastError' = err
    /\ obs' = o
    /\ UNCHANGED <<round, history, result>>

\* the end of a failed round: break, or round++ and the loop test, and the
\* return of line 610 when the loop is left
EndRound(fs, sc, err, h, brk, o) ==
    /\ files' = fs
    /\ clock' = sc.clock
    /\ backups' = sc.dir
    /\ lastError' = err
    /\ history' = h
    /\ obs' = o
    /\ IF brk \/ round = maxRounds
       THEN /\ pc' = "returned"
            /\ result' = FailureResult(maxRounds, err, h)
            /\ round' = round
       ELSE /\ pc' = "round"
            /\ result' = result
            /\ round' = round + 1

\* line 491: the tag of the round's import, and the clock after it
ImportTag == Tick(clock).now
AfterImport == Scratch(Tick(clock), backups)

\* lines 562-574 and 585-593: capture the failure, read the file, ask for a
\* fix, record the round, stop when help returned no results
FixRound(err, recordedError, svc, o) ==
    IF ~Exists(files, Target)
    THEN Raise(files, AfterImport, err, o)
    ELSE LET fixRes == help(files, AfterImport, svc)
             o2 == [o EXCEPT !.helps = @ + 1, !.svcThrew = @ \/ ServiceFails(svc)]
         IN  IF fixRes.threw
             THEN Raise(fixRes.fs, fixRes.sc, err, o2)
             ELSE EndRound(fixRes.fs, fixRes.sc, err,
                           Append(history,
                                  RoundRecord(round, <<recordedError>>,
                                              <<[proposal |-> fixRes.proposal,
                                                 results |-> fixRes.results]>>, <<>>)),
                           Len(fixRes.results) = 0, o2)

\* a round whose import fails
RoundImportFails ==
    /\ pc = "round"
    /\ ~CacheHit(loader, ImportTag)
    /\ loader' = LoadFails(loader, ImportTag, DiskText(files, Target))
    /\ \E err \in (IF Exists(files, Target) THEN Thrown ELSE {ErrNotFound}),
          svc \in ServiceOutcomes :
        FixRound(err, err.str, svc,
                 [obs EXCEPT !.reloads = @ + 1, !.reload = "failed", !.run = "none",
                             !.thrown = err, !.out = ""])
    /\ UNCHANGED <<edits, applyOut, mod, testExportName, candidate, maxRounds, indexFile,
                   helpVars, chunkVars, indexVars>>

\* a round whose import succeeds and whose candidate is not a function
RoundNoEntry ==
    /\ pc = "round"
    /\ Exists(files, Target)
    /\ \E m \in ImportedModules(loader, ImportTag, ModuleSamples), svc \in ServiceOutcomes :
        /\ NotRunnable(resolveCandidate(m, testExportName))
        /\ mod' = m
        /\ loader' = LoadOk(loader, ImportTag, ReadText(files, Target), m)
        /\ candidate' = resolveCandidate(m, testExportName)
        /\ FixRound(NewError(NoEntryMessage), NoEntryMessage, svc,
                    [obs EXCEPT !.reloads = @ + 1, !.reload = "ok", !.run = "none",
                                !.thrown = NewError(NoEntryMessage), !.out = ""])
    /\ UNCHANGED <<edits, applyOut, testExportName, maxRounds, indexFile, helpVars,
                   chunkVars, indexVars>>

\* a round whose import succeeds and whose candidate is run inside tryq
RoundRuns ==
    /\ pc = "round"
    /\ Exists(files, Target)
    /\ \E m \in ImportedModules(loader, ImportTag, ModuleSamples),
          run \in RunOutcomes, svc \in ServiceOutcomes :
        /\ ~NotRunnable(resolveCandidate(m, testExportName))
        /\ mod' = m
        /\ loader' = LoadOk(loader, ImportTag, ReadText(files, Target), m)
        /\ candidate' = resolveCandidate(m, testExportName)
        /\ LET t == tryq(files, AfterImport, run, svc)
               o == [obs EXCEPT !.reloads = @ + 1, !.reload = "ok",
                                !.run = IF run.ok THEN "returned" ELSE "threw",
                                !.thrown = run.err, !.out = run.out,
                                !.helps = IF run.ok THEN @ ELSE @ + 1,
                                !.svcThrew = @ \/ (~run.ok /\ ServiceFails(svc))]
               h == Append(history, RoundRecord(round, <<>>, <<>>, <<t.attempt>>))
           IN  IF t.threw
               THEN Raise(t.fs, t.sc, lastError, o)
               ELSE IF t.attempt.ok
               THEN /\ pc' = "returned"
                    /\ result' = SuccessResult(round, t.attempt.out, h)
                    /\ files' = t.fs /\ history' = h /\ obs' = o
                    /\ clock' = t.sc.clock /\ backups' = t.sc.dir
                    /\ UNCHANGED <<round, lastError>>
               ELSE EndRound(t.fs, t.sc, NewError(t.attempt.error), h, FALSE, o)
    /\ UNCHANGED <<edits, applyOut, testExportName, maxRounds, indexFile, helpVars,
                   chunkVars, indexVars>>

Next == Start \/ RoundImportFails \/ RoundNoEntry \/ RoundRuns

Spec == Init /\ [][Next]_vars

\* the session is sequential code: a step that can be taken is taken
FairSpec == Spec /\ WF_vars(Next)

(***************************************************************************)
(* Claims about the Repair Loop (checked under Spec and FairSpec).         *)
(***************************************************************************)
Returned == pc = "returned"

\* the results of the edits applied in the round a history record describes
RecordResults(rec) ==
    IF rec.fixRes # <<>> THEN rec.fixRes[1].results
    ELSE IF rec.attempt # <<>> /\ rec.attempt[1].fix # <<>>
         THEN rec.attempt[1].fix[1].results
    ELSE <<>>
RecordFailed(rec) == ~(rec.attempt # <<>> /\ rec.attempt[1].ok)
AppliedOk(rec) == Cardinality({i \in 1..Len(RecordResults(rec)) : RecordResults(rec)[i].ok})

\* the round just taken loaded the module, resolved a function and ran it
\* without failure
SuccessRound == obs.reload = "ok" /\ ~NotRunnable(candidate) /\ obs.run = "returned"

\* C1: a session never ends by an exception escaping fixAndTestFile: it
\* only ever ends by returning a result.
C1_NeverRaises == pc # "raised"

\* C2: a round in which the reload succeeds, a function is resolved and its
\* run does not fail ends the session at once: the result is ok = TRUE with
\* rounds = the round's number, out = the value the entry point returned and
\* the whole history (one record per round); the round makes no fix request
\* and leaves every file as it was; no step follows a returned session.
C2_SuccessEndsSession ==
    [][ /\ (pc = "returned" => FALSE)
        /\ (pc = "round" /\ obs'.reloads = obs.reloads + 1 /\ SuccessRound') =>
              /\ pc' = "returned"
              /\ result' = [ok |-> TRUE, rounds |-> round, out |-> <<obs'.out>>,
                            error |-> <<>>, history |-> history']
              /\ Len(history') = round
              /\ \A i \in 1..Len(history') : history'[i].round = i
              /\ files' = files
              /\ obs'.helps = obs.helps ]_vars

\* failure in round 1 with one applied edit, success in round 2
C2_SecondRoundSuccess ==
    /\ Returned /\ result.ok /\ result.rounds = 2 /\ Len(history) = 2
    /\ RecordFailed(history[1]) /\ Len(RecordResults(history[1])) = 1
    /\ AppliedOk(history[1]) = 1
    /\ SuccessRound /\ result.out = <<obs.out>>

\* C3: a failing round of any of the three kinds in which no edit was
\* applied successfully is the last round: no further round is started.
C3_EarlyStopWhenNothingApplied ==
    \A i \in 1..Len(history) :
        (RecordFailed(history[i]) /\ AppliedOk(history[i]) = 0) =>
            (i = Len(history) /\ pc # "round")

\* C4: a session makes at most maxRounds reload attempts, and unless an
\* external-service call fails it eventually returns a result (success,
\* exhaustion or early stop).
C4_BoundedAndTerminates ==
    /\ [](obs.reloads <= maxRounds)
    /\ <>(Returned \/ obs.svcThrew)

\* C5: a returned failure result has ok = FALSE, the message of the failure
\* of the last round as its error, and the whole history.
C5_ErrorIsLastFailureMessage ==
    (Returned /\ ~result.ok) =>
        /\ result.error = <<MessageOrString(obs.thrown)>>
        /\ result.history = history

\* C6: the rounds field of a returned failure result is the number of
\* rounds the session executed.
C6_RoundsIsRoundsExecuted ==
    (Returned /\ ~result.ok) => result.rounds = obs.reloads

\* C12: once an edit of the session has changed the target file, which
\* existed when the session began, the backup directory holds a backup of
\* the target with the content the file had before the session's first
\* edit, and keeps holding it: no later backup overwrites it.
C12_OriginalBackupKept ==
    (Exists(files, Target) /\ ReadText(files, Target) # OriginalText) =>
        \E b \in backups : b.base = Basename(Target) /\ b.content = OriginalText

\* the edit list the fix-proposal service returned in the round a history
\* record describes
RecordProposal(rec) ==
    IF rec.fixRes # <<>> THEN rec.fixRes[1].proposal
    ELSE IF rec.attempt # <<>> /\ rec.attempt[1].fix # <<>>
         THEN rec.attempt[1].fix[1].proposal
    ELSE <<>>

\* C14: in every failing round that ends without an exception, whichever of
\* the three failure paths it took, the files after the round are the files
\* before it with the proposed edit list applied once.
C14_EditsAppliedOnce ==
    [][ (pc = "round" /\ pc' # "raised" /\ Len(history') = Len(history) + 1
            /\ RecordFailed(history'[Len(history')])) =>
          files' = applyEdits(files, Scratch(clock, backups),
                              RecordProposal(history'[Len(history')])).fs ]_vars

\* C15: the tags of the reload attempts of a session are pairwise
\* distinct, and every module a reload gave was made from the text the file
\* held at the time of that reload, never from an earlier load.
C15_EveryReloadIsFresh ==
    /\ \A i, j \in 1..Len(loader.loads) :
            i # j => loader.loads[i].tag # loader.loads[j].tag
    /\ \A i \in 1..Len(loader.loads) :
            loader.loads[i].ok => loader.loads[i].text = loader.loads[i].disk

\* the history holds one record per completed round, numbered 1, 2, ...
\* in order; a round that ended by an exception left no record
HistoryNumbered ==
    /\ \A i \in 1..Len(history) : history[i].round = i
    /\ pc = "round" => Len(history) = round - 1
    /\ pc = "returned" => Len(history) = obs.reloads
    /\ pc = "raised" => Len(history) = Max(obs.reloads - 1, 0)

\* the record carries the error and the fix result in its own fields
CarriesOwnFields(rec) == rec.error # <<>> /\ rec.fixRes # <<>>

\* the record carries the error and the fix result inside its attempt
CarriesInAttempt(rec) ==
    /\ rec.attempt # <<>>
    /\ rec.attempt[1].error # <<>>
    /\ rec.attempt[1].fix # <<>>

\* C17 as stated: the history holds one record per completed round,
\* numbered 1..n in order, and the record of every failed round carries the
\* round's error and fix result in the fields error and fixRes.
C17_RecordsCarryErrorAndFix ==
    /\ HistoryNumbered
    /\ \A i \in 1..Len(history) :
            RecordFailed(history[i]) => CarriesOwnFields(history[i])

\* C17 amended: the history holds one record per completed round, numbered
\* 1..n in order; the record of a round that failed at the import or at the
\* entry point carries the error and the fix result in its fields error and
\* fixRes and has no attempt; the record of a round that ran the entry
\* point has the attempt only, which carries the error and the fix when the
\* run failed; a record of a successful run is the last one.
C17_RecordsCarryErrorOrAttempt ==
    /\ HistoryNumbered
    /\ \A i \in 1..Len(history) :
            /\ RecordFailed(history[i]) =>
                    \/ CarriesOwnFields(history[i]) /\ history[i].attempt = <<>>
                    \/ CarriesInAttempt(history[i]) /\ history[i].error = <<>>
                            /\ history[i].fixRes = <<>>
            /\ ~RecordFailed(history[i]) => (i = Len(history) /\ Returned /\ result.ok)

\* a history of three records: an import failure, a runtime failure, and
\* the successful run that ended the session
C17_BothRecordShapes ==
    /\ Returned /\ Len(history) = 3
    /\ CarriesOwnFields(history[1]) /\ history[1].attempt = <<>>
    /\ CarriesInAttempt(history[2]) /\ ~history[2].attempt[1].ok
    /\ ~RecordFailed(history[3])

(***************************************************************************)
(* Claims about the entry-point resolution (checked under ResolveSpec).    *)
(***************************************************************************)
HasCallableExport == \E n \in ExportSet : mod[n] = "function"
IsCallable(name) == Export(mod, name) = "function"

\* C7: the candidate is the configured export when callable, else the
\* default export when callable, else the first callable export; whenever
\* the module has a callable export a function is resolved, and the missing
\* entry point error arises only when it has none.
C7_CallableExportIsResolved ==
    pc = "resolved" =>
        /\ IsCallable(testExportName) => candidate.name = testExportName
        /\ (~IsCallable(testExportName) /\ IsCallable("default")) =>
                candidate.name = "default"
        /\ HasCallableExport => candidate.kind = "function"
        /\ lastError = NewError(NoEntryMessage) => ~HasCallableExport

(***************************************************************************)
(* Claims about the Edit Applier (checked under EditSpec).                 *)
(***************************************************************************)
Applied == applyOut.status # "pending"
TextBefore == ReadText(applyOut.before, Target)
TextAfter == ReadText(files, Target)

\* the file system after the first k edits of the list were processed
FilesAfter(k) ==
    applyEdits(applyOut.before, Scratch([now |-> 0, step |-> 0], NoBackups),
               SubSeq(edits, 1, k)).fs

\* C22: an edit whose result record has ok = false leaves its target file
\* as it was before that edit was processed, whatever made it fail (an
\* unknown strategy, missing fields, a replace_range of a file that does
\* not exist); the files after the call are those after the last edit
\* processed.
C22_FailedEditLeavesFile ==
    Applied =>
        /\ files = FilesAfter(Len(applyOut.results))
        /\ \A i \in 1..Len(applyOut.results) :
               ~applyOut.results[i].ok =>
                   FilesAfter(i)[applyOut.results[i].path]
                       = FilesAfter(i - 1)[applyOut.results[i].path]

\* the first edit rewrote the target, the second failed on the same file,
\* which keeps the text the first edit gave it
C22_FailureAfterSuccess ==
    /\ applyOut.status = "returned"
    /\ Len(applyOut.results) = 2
    /\ applyOut.results[1].ok /\ applyOut.results[1].path = Target
    /\ ~applyOut.results[2].ok /\ applyOut.results[2].path = Target
    /\ Exists(applyOut.before, Target)
    /\ TextAfter # TextBefore

\* an edit the claim calls bad: no string path, an unknown strategy, or a
\* strategy whose required fields are missing
BadEdit(e) ==
    \/ e.path.t # "string"
    \/ e.strategy \notin {"replace_range", "replace_file"}
    \/ e.strategy = "replace_file" /\ e.new_content.t # "string"
    \/ e.strategy = "replace_range"
        /\ (e.new_text.t # "string" \/ e.startLine.t # "number" \/ e.endLine.t # "number")

\* C8: once applyEdits has run, it has returned (not thrown) one result
\* record per input edit, in input order (record i carries edit i's path),
\* and the record of every bad edit has ok = FALSE.
C8_OneRecordPerEdit ==
    Applied =>
        /\ applyOut.status = "returned"
        /\ Len(applyOut.results) = Len(edits)
        /\ \A i \in 1..Len(edits) :
            /\ edits[i].path.t = "string" => applyOut.results[i].path = edits[i].path.v
            /\ BadEdit(edits[i]) => ~applyOut.results[i].ok

\* a single replace_range edit of the existing target with numeric bounds
\* and a string new_text
IsRangeCase ==
    /\ Len(edits) = 1
    /\ edits[1] \in RangeEdits
    /\ edits[1].startLine.t = "number"
    /\ edits[1].endLine.t = "number"
    /\ edits[1].new_text.t = "string"
    /\ Exists(applyOut.before, Target)

RangeStart == edits[1].startLine.v
RangeEnd == edits[1].endLine.v
RangeText == edits[1].new_text.v
LineCount == Len(SplitLines(TextBefore))
InRange == 1 <= RangeStart /\ RangeStart <= RangeEnd /\ RangeEnd <= LineCount

RECURSIVE KeepFrom(_, _, _)
KeepFrom(raw, i, cur) ==
    IF i > Len(raw) THEN <<cur>>
    ELSE IF raw[i] = LF THEN <<Append(cur, LF)>> \o KeepFrom(raw, i + 1, <<>>)
    ELSE IF raw[i] = CR /\ i < Len(raw) /\ raw[i + 1] = LF
         THEN <<cur \o <<CR, LF>> >> \o KeepFrom(raw, i + 2, <<>>)
    ELSE KeepFrom(raw, i + 1, Append(cur, raw[i]))

\* the lines of a text, each with its own line terminator
LinesWithEnds(raw) == KeepFrom(raw, 1, <<>>)

\* C9 as stated: after an in-range replace_range the file is the original
\* lines before startLine, the lines of new_text, the original lines after
\* endLine, and every untouched line keeps its line terminator.
C9_UntouchedLinesVerbatim ==
    (Applied /\ IsRangeCase /\ InRange) =>
        LET old == LinesWithEnds(TextBefore)
            new == LinesWithEnds(TextAfter)
            m == Len(SplitLines(RangeText))
        IN  /\ applyOut.status = "returned" /\ applyOut.results[1].ok
            /\ Len(new) = (RangeStart - 1) + m + (LineCount - RangeEnd)
            /\ SubSeq(new, 1, RangeStart - 1) = SubSeq(old, 1, RangeStart - 1)
            /\ SubSeq(SplitLines(TextAfter), RangeStart, RangeStart + m - 1)
                    = SplitLines(RangeText)
            /\ SubSeq(new, RangeStart + m, Len(new)) = SubSeq(old, RangeEnd + 1, LineCount)

\* C9 amended: after an in-range replace_range the file is the contents of
\* the original lines before startLine, the lines of new_text and the
\* contents of the original lines after endLine, in that order, joined by
\* LF: the content of every untouched line is kept, a CRLF terminator is not.
C9_UntouchedLinesJoinedByLF ==
    (Applied /\ IsRangeCase /\ InRange) =>
        LET old == SplitLines(TextBefore)
        IN  /\ applyOut.status = "returned" /\ applyOut.results[1].ok
            /\ TextAfter = JoinWith(SubSeq(old, 1, RangeStart - 1)
                                    \o SplitLines(RangeText)
                                    \o SubSeq(old, RangeEnd + 1, LineCount), <<LF>>)

\* the 5-line file 1..5 with replace_range(2, 3, "X\nY") applied
C9_FiveLineExample ==
    /\ Applied /\ IsRangeCase /\ InRange
    /\ TextBefore = <<"1", LF, "2", LF, "3", LF, "4", LF, "5">>
    /\ RangeStart = 2 /\ RangeEnd = 3 /\ RangeText = <<"X", LF, "Y">>
    /\ TextAfter = <<"1", LF, "X", LF, "Y", LF, "4", LF, "5">>

\* the range the claim says is used
ClaimedStart == IF RangeStart < 1 THEN 1
                ELSE IF RangeStart > LineCount THEN LineCount ELSE RangeStart
ClaimedEnd == LET e == IF RangeEnd > LineCount THEN LineCount ELSE RangeEnd
              IN  IF e < ClaimedStart THEN ClaimedStart ELSE e

\* C10: for every integer startLine and endLine, 0 and negatives included,
\* the replace_range edit is applied, and applied to the clamped range
\* [max(1, startLine) .. min(lineCount, endLine)] with end >= start.
C10_EveryIntegerRangeClamped ==
    (Applied /\ IsRangeCase) =>
        LET old == SplitLines(TextBefore)
        IN  /\ applyOut.status = "returned" /\ applyOut.results[1].ok
            /\ 1 <= ClaimedStart /\ ClaimedStart <= ClaimedEnd /\ ClaimedEnd <= LineCount
            /\ TextAfter = JoinWith(SubSeq(old, 1, ClaimedStart - 1)
                                    \o SplitLines(RangeText)
                                    \o SubSeq(old, ClaimedEnd + 1, LineCount), <<LF>>)

(***************************************************************************)
(* Claims about the chunk extractor (checked under ChunkSpec).             *)
(***************************************************************************)
\* the source gives no function chunk: it does not parse, or the visit
\* reaches no function node with a location before it ends or throws
NoFunctionChunk(src) ==
    \/ ~src.parse.ok
    \/ \A i \in 1..Len(src.parse.nodes) :
           src.parse.nodes[i].loc # <<>> => (src.parse.throwsAt # 0 /\ i >= src.parse.throwsAt)

\* the number of the last line of a text: one more than its line feeds
LastLine(code) == 1 + Cardinality({i \in 1..Len(code) : code[i] = LF})

\* C20: for a text that fails to parse or yields no function chunk, the
\* extractor returns exactly one chunk, of kind file, from line 1 to the
\* last line of the text, and every call with the same input returns the
\* same chunks, whatever was extracted before.
C20_FallbackIsOneFileChunk ==
    \A c \in 1..Len(chunkLog) :
        NoFunctionChunk(chunkLog[c].src) =>
            /\ Len(chunkLog[c].chunks) = 1
            /\ chunkLog[c].chunks[1].kind = "file"
            /\ chunkLog[c].chunks[1].startLine = 1
            /\ chunkLog[c].chunks[1].endLine = LastLine(chunkLog[c].src.code)
            /\ \A d \in 1..Len(chunkLog) :
                   chunkLog[d].src = chunkLog[c].src => chunkLog[d].chunks = chunkLog[c].chunks

\* a text with function chunks was extracted first, then twice a text of
\* three lines that does not parse
C20_FallbackAfterFunctions ==
    /\ Len(chunkLog) = 3
    /\ chunkLog[1].chunks[1].kind = "function"
    /\ ~chunkLog[2].src.parse.ok
    /\ chunkLog[3].src = chunkLog[2].src
    /\ chunkLog[3].chunks[1].endLine = 3

(***************************************************************************)
(* Claims about the index (checked under IndexSpec).                       *)
(***************************************************************************)
RECURSIVE InnerProductFrom(_, _, _)
InnerProductFrom(a, b, i) ==
    IF i > Len(a) \/ i > Len(b) THEN 0 ELSE a[i] * b[i] + InnerProductFrom(a, b, i + 1)

\* the similarity of a chunk to the query of the last search, as the
\* strategy that served it defines it: the cosine for the exact scan, the
\* inner product for the accelerated index
Similarity(item) ==
    IF searchOut.backend = "exact" THEN cosineSim(item.embedding, searchOut.query)
    ELSE [num |-> InnerProductFrom(item.embedding, searchOut.query, 1), den |-> 1]

\* C18: a search that returns gives at most k chunks, all of them chunks
\* of the snapshot it loaded, in order of non-increasing similarity to the
\* query vector, whichever strategy served it and also when k exceeds the
\* number of chunks; a search of an empty snapshot gives no chunk.
C18_SearchIsTopKBestFirst ==
    searchOut.status = "returned" =>
        /\ Len(searchOut.items) <= searchOut.k
        /\ \A i \in 1..Len(searchOut.items) :
                \E j \in 1..Len(searchOut.loaded) : searchOut.items[i] = searchOut.loaded[j]
        /\ \A i, j \in 1..Len(searchOut.items) :
                i < j => ~ScoreLess(Similarity(searchOut.items[i]),
                                    Similarity(searchOut.items[j]))
        /\ Len(searchOut.loaded) = 0 => searchOut.items = <<>>

\* C19: all the chunks of a persisted snapshot carry embedding vectors of
\* one dimensionality, whatever number of vectors the embedding service
\* returned to the build.
C19_OneDimensionPerSnapshot ==
    loadIndex(snapshot) # <<>> =>
        \A i, j \in 1..Len(Elements(loadIndex(snapshot)[1])) :
            Len(Elements(loadIndex(snapshot)[1])[i].embedding)
                = Len(Elements(loadIndex(snapshot)[1])[j].embedding)

\* C23: the cached accelerated index is the one of the snapshot the search
\* loaded: after a search it served, through any sequence of searches and
\* rebuilds of the snapshot in the process, row i of the cache holds the
\* vector of chunk i of the loaded snapshot, so that an id it returns maps
\* to the chunk whose vector made the match.
C23_CacheIsOfLoadedSnapshot ==
    (searchOut.status = "returned" /\ searchOut.backend = "faiss") =>
        /\ Len(faiss.cache[1].rows) = Len(searchOut.loaded)
        /\ \A i \in 1..Len(searchOut.loaded) :
               faiss.cache[1].rows[i]
                   = Row(searchOut.loaded[i].embedding, faiss.cache[1].dim)

(***************************************************************************)
(* Claims about the snapshot file (checked under SnapshotSpec).            *)
(***************************************************************************)
\* the text is not the text of a snapshot: it is no JSON document, or the
\* document has no list under index
MalformedSnapshot(text) ==
    ~text.json \/ text.index = <<>> \/ text.index[1].t # "array"

\* a load of the file as buildIndex left it gives the chunks buildIndex
\* returned, in their order
LoadGivesWhatBuildReturned ==
    (loadOut.status = "loaded" /\ buildOut.status = "returned"
        /\ loadOut.file = buildOut.file) =>
        /\ loadOut.value # <<>>
        /\ loadOut.value[1].t = "array"
        /\ loadOut.value[1].v = buildOut.index

\* C21: a load of the snapshot buildIndex persisted returns the chunks
\* buildIndex returned, in the same order, the empty list included; and
\* loadIndex returns null exactly when the file is absent or malformed.
C21_RoundTripAndNullOnBadFile ==
    /\ LoadGivesWhatBuildReturned
    /\ loadOut.status = "loaded" =>
           (loadOut.value = <<>>
                <=> (loadOut.file = NoSnapshot \/ MalformedSnapshot(loadOut.file[1])))

IsInteger(x) == x.t = "number"

\* an edit without all the required fields of the required types
Invalid(e) ==
    \/ e.strategy \notin {"replace_range", "replace_file"}
    \/ e.strategy = "replace_file" /\ e.new_content.t # "string"
    \/ e.strategy = "replace_range"
        /\ (e.new_text.t # "string" \/ ~IsInteger(e.startLine) \/ ~IsInteger(e.endLine))

\* C16: in the results applyEdits returns, the record of a replace_file
\* edit whose new_content is not a string, of a replace_range edit whose
\* startLine or endLine is not an integer or whose new_text is not a string,
\* and of an edit of any other strategy has ok = FALSE and a reason; only
\* edits with every required field of the required type have ok = TRUE.
C16_InvalidEditsAreRejected ==
    (Applied /\ applyOut.status = "returned") =>
        \A i \in 1..Len(edits) :
            Invalid(edits[i]) =>
                ~applyOut.results[i].ok /\ applyOut.results[i].reason # ""

(***************************************************************************)
(* Claims about help (checked under HelpSpec).                             *)
(***************************************************************************)
\* a reply that is not a JSON object of the shape {edits: [edit, ...]}
Malformed(rp) ==
    \/ rp.kind \in {"not_json", "no_edits", "bad_edits"}
    \/ rp.kind = "response" /\ \E i \in 1..Len(rp.edits) : rp.edits[i] = NonEdit

\* C13: a reply of the fix-proposal service that does not have the shape
\* {edits: [edit, ...]} is treated as {edits: []}: help returns (it does
\* not throw), with no results, and no file is changed.
C13_MalformedReplyIsNoEdits ==
    (Applied /\ Malformed(reply)) =>
        /\ applyOut.status = "returned"
        /\ applyOut.results = <<>>
        /\ files = applyOut.before

\* what replace_file(text) leaves in the target of the file system the edit
\* was applied to
ReplaceFileResult(text) ==
    ReadText(applyEdits(applyOut.before, Scratch(clock, backups),
                        <<FileEdit(Target, JsStr(text))>>).fs, Target)

\* C11: replace_range(1, N, text) applied to a file of N lines leaves the
\* file with the content replace_file(text) leaves.
C11_WholeRangeIsReplaceFile ==
    (Applied /\ IsRangeCase /\ RangeStart = 1 /\ RangeEnd = LineCount) =>
        /\ applyOut.status = "returned" /\ applyOut.results[1].ok
        /\ TextAfter = ReplaceFileResult(RangeText)

====
